---- MODULE Spec2Model ----
(***************************************************************************)
(* Model of the two ComfyUI nodes of nodes.py:                             *)
(*   AspectRatioLatentNode (find_closest_aspect_ratio, create_latent) and  *)
(*   SaveMeshAnywhere (save_mesh).                                         *)
(*                                                                         *)
(* Python floats are IEEE-754 binary64 numbers.  They are modelled exactly:*)
(* a float is sign * mantissa * 2^exponent with a 53-bit mantissa held as  *)
(* an arbitrary-precision natural (a little-endian sequence of 15-bit      *)
(* limbs); every arithmetic result is the exact result rounded to nearest, *)
(* ties to even.  Exponent overflow and subnormals are out of range of the *)
(* values used here (magnitudes between 2^-80 and 2^80).                   *)
(***************************************************************************)
EXTENDS Integers, Sequences, FiniteSets, TLC

----------------------------------------------------------------------------
(* Arbitrary-precision naturals.                                           *)

Base == 2^15

RECURSIVE NatBits(_)
NatBits(n) == IF n = 0 THEN 0 ELSE 1 + NatBits(n \div 2)

\* bits per limb
LimbBits == NatBits(Base) - 1

RECURSIVE Trim(_)
Trim(m) ==
    IF m = <<>> THEN <<>>
    ELSE IF m[Len(m)] = 0 THEN Trim(SubSeq(m, 1, Len(m) - 1))
    ELSE m

RECURSIVE FromNat(_)
FromNat(n) == IF n = 0 THEN <<>> ELSE <<n % Base>> \o FromNat(n \div Base)

Limb(m, i) == IF i >= 1 /\ i <= Len(m) THEN m[i] ELSE 0

RECURSIVE AddC(_, _, _, _)
AddC(a, b, i, c) ==
    IF i > Len(a) /\ i > Len(b)
    THEN (IF c = 0 THEN <<>> ELSE <<c>>)
    ELSE LET s == Limb(a, i) + Limb(b, i) + c
         IN  <<s % Base>> \o AddC(a, b, i + 1, s \div Base)

BAdd(a, b) == AddC(a, b, 1, 0)

RECURSIVE SubB(_, _, _, _)
SubB(a, b, i, br) ==
    IF i > Len(a) THEN <<>>
    ELSE LET d == Limb(a, i) - Limb(b, i) - br
         IN  IF d < 0 THEN <<d + Base>> \o SubB(a, b, i + 1, 1)
                      ELSE <<d>> \o SubB(a, b, i + 1, 0)

\* a - b for a >= b
BSub(a, b) == Trim(SubB(a, b, 1, 0))

RECURSIVE CmpFrom(_, _, _)
CmpFrom(a, b, i) ==
    IF i = 0 THEN 0
    ELSE IF a[i] > b[i] THEN 1
    ELSE IF a[i] < b[i] THEN -1
    ELSE CmpFrom(a, b, i - 1)

\* -1, 0 or 1 as a < b, a = b, a > b
BCmp(a, b) ==
    IF Len(a) > Len(b) THEN 1
    ELSE IF Len(a) < Len(b) THEN -1
    ELSE CmpFrom(a, b, Len(a))

RECURSIVE MulC(_, _, _, _)
MulC(m, c, i, carry) ==
    IF i > Len(m) THEN FromNat(carry)
    ELSE LET p == m[i] * c + carry
         IN  <<p % Base>> \o MulC(m, c, i + 1, p \div Base)

\* m * c for 0 <= c <= Base
BMulSmall(m, c) == Trim(MulC(m, c, 1, 0))

RECURSIVE DivC(_, _, _, _)
DivC(m, d, i, rem) ==
    IF i = 0 THEN [q |-> <<>>, r |-> rem]
    ELSE LET cur  == rem * Base + m[i]
             rest == DivC(m, d, i - 1, cur % d)
         IN  [q |-> rest.q \o <<cur \div d>>, r |-> rest.r]

\* quotient and remainder of m by d, 0 < d <= Base
BDivSmall(m, d) ==
    LET x == DivC(m, d, Len(m), 0) IN [q |-> Trim(x.q), r |-> x.r]

BitLen(m) == IF m = <<>> THEN 0 ELSE LimbBits * (Len(m) - 1) + NatBits(m[Len(m)])

\* m * 2^s
BShl(m, s) ==
    IF m = <<>> THEN <<>>
    ELSE [i \in 1..(s \div LimbBits) |-> 0] \o BMulSmall(m, 2^(s % LimbBits))

\* floor(m / 2^s)
BShr(m, s) ==
    LET q == s \div LimbBits
    IN  IF q >= Len(m) THEN <<>>
        ELSE BDivSmall(SubSeq(m, q + 1, Len(m)), 2^(s % LimbBits)).q

\* m mod 2^s
BLow(m, s) ==
    LET q == s \div LimbBits
    IN  IF q >= Len(m) THEN m
        ELSE Trim(SubSeq(m, 1, q) \o <<m[q + 1] % (2^(s % LimbBits))>>)

----------------------------------------------------------------------------
(* IEEE-754 binary64 values: [k, s, m, e] is s * m * 2^e, with m = <<>>    *)
(* (zero) or 2^52 <= m < 2^53; k = "inf" is float('inf').                  *)

Precision == 53

Zero(s) == [k |-> "fin", s |-> s, m |-> <<>>, e |-> 0]
Inf == [k |-> "inf", s |-> 1, m |-> <<>>, e |-> 0]

\* a 53- or 54-bit mantissa q back to 53 bits (54 bits only as 2^53)
Renormalize(s, q, e) ==
    IF BitLen(q) > Precision
    THEN [k |-> "fin", s |-> s, m |-> BShr(q, 1), e |-> e + 1]
    ELSE [k |-> "fin", s |-> s, m |-> q, e |-> e]

\* q, the high 53 bits, rounded up when the dropped bits are more than half
\* a unit (c = 1), or exactly half (c = 0) and q is odd
RoundHalfEven(s, q, c, e) ==
    Renormalize(s, IF c = 1 \/ (c = 0 /\ q[1] % 2 = 1) THEN BAdd(q, <<1>>) ELSE q, e)

\* m of L bits
RoundBits(s, m, e, L) ==
    IF L = 0 THEN Zero(s)
    ELSE IF L <= Precision
    THEN [k |-> "fin", s |-> s, m |-> BShl(m, Precision - L), e |-> e - (Precision - L)]
    ELSE RoundHalfEven(s, BShr(m, L - Precision),
                       BCmp(BLow(m, L - Precision), BShl(<<1>>, L - Precision - 1)),
                       e + (L - Precision))

\* the float nearest to s * m * 2^e (ties to even), m any natural
Round(s, m, e) == RoundBits(s, m, e, BitLen(m))

Sign(n) == IF n < 0 THEN -1 ELSE 1
Mag(n) == IF n < 0 THEN -n ELSE n
Min(a, b) == IF a <= b THEN a ELSE b

\* s * (x.q + fraction) * 2^-sh, the fraction nonzero iff x.r # 0: one more
\* bit below x.q stands for the fraction
RoundQuotient(s, x, sh) ==
    Round(s, BAdd(BShl(x.q, 1), IF x.r = 0 THEN <<>> ELSE <<1>>), -(sh + 1))

\* Python's n / d on ints (true division, correctly rounded), d # 0, |d| <= Base
FDiv(n, d) ==
    RoundQuotient(Sign(n) * Sign(d),
                  BDivSmall(BShl(FromNat(Mag(n)), 5 * LimbBits), Mag(d)),
                  5 * LimbBits)

\* sa * A * 2^e0 - sb * B * 2^e0, A and B nonzero, c = BCmp(A, B)
SubAligned(sa, sb, A, B, c, e0) ==
    Round(IF sa # sb \/ c = 1 THEN sa ELSE IF c = 0 THEN 1 ELSE -sa,
          IF sa # sb THEN BAdd(A, B) ELSE IF c = 1 THEN BSub(A, B) ELSE BSub(B, A),
          e0)

SubShifted(sa, sb, A, B, e0) == SubAligned(sa, sb, A, B, BCmp(A, B), e0)

\* a - b on finite floats
FSub(a, b) ==
    IF b.m = <<>> THEN (IF a.m = <<>> THEN Zero(IF a.s = -1 /\ b.s = 1 THEN -1 ELSE 1) ELSE a)
    ELSE IF a.m = <<>> THEN [b EXCEPT !.s = -b.s]
    ELSE SubShifted(a.s, b.s, BShl(a.m, a.e - Min(a.e, b.e)),
                    BShl(b.m, b.e - Min(a.e, b.e)), Min(a.e, b.e))

\* abs(a)
FAbs(a) == [a EXCEPT !.s = 1]

\* -1, 0 or 1 as a < b, a = b, a > b on finite floats of either sign
FCmp(a, b) ==
    IF a.m = <<>> /\ b.m = <<>> THEN 0
    ELSE IF a.m = <<>> THEN -b.s
    ELSE IF b.m = <<>> THEN a.s
    ELSE IF a.s # b.s THEN a.s
    ELSE IF a.e # b.e THEN (IF a.e > b.e THEN a.s ELSE -a.s)
    ELSE a.s * BCmp(a.m, b.m)

\* a < b, either possibly float('inf')
FLess(a, b) ==
    IF a.k = "inf" THEN FALSE
    ELSE IF b.k = "inf" THEN TRUE
    ELSE FCmp(a, b) = -1

\* a * 2^n (math.ldexp), exact
Ldexp(a, n) == IF a.m = <<>> THEN a ELSE [a EXCEPT !.e = a.e + n]

\* q + 1 when the dropped bits are more than half a unit (c = 1), or exactly
\* half (c = 0) and q is odd
NearestEven(q, c) ==
    IF c = 1 \/ (c = 0 /\ Limb(q, 1) % 2 = 1) THEN BAdd(q, <<1>>) ELSE q

\* M * 2^e to the nearest integer, ties to even
ToNearest(M, e) ==
    IF e >= 0 THEN BShl(M, e)
    ELSE NearestEven(BShr(M, -e), BCmp(BLow(M, -e), BShl(<<1>>, -e - 1)))

\* format(a, ".2f"): the sign and the hundredths, |a| * 100 rounded to the
\* nearest integer from the exact binary value, ties to even
Format2(a) == [neg |-> a.s = -1, cents |-> ToNearest(BMulSmall(a.m, 100), a.e)]

----------------------------------------------------------------------------
(* AspectRatioLatentNode                                                   *)

None == <<>>
Some(x) == <<x>>

\* a two-decimal float literal such as 0.26, given in hundredths
Literal(hundredths) == FDiv(hundredths, 100)

\* (height, width, ratio) with the ratio literal in hundredths
TableLiterals ==
    << <<512, 2048, 25>>,  <<512, 1984, 26>>,  <<512, 1920, 27>>,  <<512, 1856, 28>>,
       <<576, 1792, 32>>,  <<576, 1728, 33>>,  <<576, 1664, 35>>,  <<640, 1600, 40>>,
       <<640, 1536, 42>>,  <<704, 1472, 48>>,  <<704, 1408, 50>>,  <<704, 1344, 52>>,
       <<768, 1344, 57>>,  <<768, 1280, 60>>,  <<832, 1216, 68>>,  <<832, 1152, 72>>,
       <<896, 1152, 78>>,  <<896, 1088, 82>>,  <<960, 1088, 88>>,  <<960, 1024, 94>>,
       <<1024, 1024, 100>>, <<1024, 960, 107>>, <<1088, 960, 113>>, <<1088, 896, 121>>,
       <<1152, 896, 129>>, <<1152, 832, 138>>, <<1216, 832, 146>>, <<1280, 768, 167>>,
       <<1344, 768, 175>>, <<1408, 704, 200>>, <<1472, 704, 209>>, <<1536, 640, 240>>,
       <<1600, 640, 250>>, <<1664, 576, 289>>, <<1728, 576, 300>>, <<1792, 576, 311>>,
       <<1856, 512, 362>>, <<1920, 512, 375>>, <<1984, 512, 388>>, <<2048, 512, 400>> >>

\* faulty variant: the table holding height / width itself
ExactRatios ==
    [i \in 1..Len(TableLiterals) |->
        <<TableLiterals[i][1], TableLiterals[i][2],
          FDiv(TableLiterals[i][1], TableLiterals[i][2])>>]

ASPECT_RATIOS ==
    [i \in 1..Len(TableLiterals) |->
        <<TableLiterals[i][1], TableLiterals[i][2], Literal(TableLiterals[i][3])>>]

\* faulty variant: the comparison the wrong way round
Farther(diff, min_diff) == FLess(min_diff, diff)

\* faulty variant: diff <= min_diff
CloserOrEqual(diff, min_diff) == ~FLess(min_diff, diff)

\* diff < min_diff
Closer(diff, min_diff) == FLess(diff, min_diff)

\* faulty variant: ratio - target_ratio, the abs() forgotten
SignedDiff(ratio, target_ratio) == FSub(ratio, target_ratio)

\* abs(ratio - target_ratio)
Diff(ratio, target_ratio) == FAbs(FSub(ratio, target_ratio))

\* the loop over the table from entry i on
RECURSIVE Scan(_, _, _, _)
Scan(target_ratio, i, min_diff, closest) ==
    IF i > Len(ASPECT_RATIOS) THEN closest
    ELSE LET entry == ASPECT_RATIOS[i]
             diff  == Diff(entry[3], target_ratio)
         IN  IF Closer(diff, min_diff)
             THEN Scan(target_ratio, i + 1, diff, entry)
             ELSE Scan(target_ratio, i + 1, min_diff, closest)

\* faulty variant: the scan starting at the second entry
FindSkippingFirst(target_ratio) == Scan(target_ratio, 2, Inf, None)

find_closest_aspect_ratio(target_ratio) == Scan(target_ratio, 1, Inf, None)

\* torch.zeros(shape)
Zeros(shape) == [shape |-> shape, fill |-> 0]

\* faulty variant: pixels // 16
LatentDim16(pixels) == pixels \div 16

\* pixels // 8
LatentDim(pixels) == pixels \div 8

\* the outcome of a call: what it returns or raises, and the statements it ran
Return(value, ran) == [status |-> "ok", value |-> value, trace |-> ran]
Raise(exception, ran) == [status |-> exception, value |-> None, trace |-> ran]

\* create_latent from "Calculate aspect ratio" on
Latent(batch_size, input_width, input_height) ==
    IF input_width = 0
    THEN Raise("ZeroDivisionError", <<"input_ratio">>)
    ELSE LET input_ratio   == FDiv(input_height, input_width)
             matched       == find_closest_aspect_ratio(input_ratio)
             latent_height == LatentDim(matched[1])
             latent_width  == LatentDim(matched[2])
             latent        == Zeros(<<batch_size, 4, latent_height, latent_width>>)
             info          == [input   |-> <<input_width, input_height, Format2(input_ratio)>>,
                               matched |-> <<matched[2], matched[1], Format2(matched[3])>>]
         IN  Return(<<[samples |-> latent], matched[2], matched[1], matched[3], info>>,
                    <<"input_ratio", "find_closest_aspect_ratio", "torch.zeros">>)

\* faulty variant: explicit width and height, when both are given, win over the image
CreateLatentExplicitFirst(batch_size, image, width, height) ==
    IF width # None /\ height # None
    THEN Latent(batch_size, width[1], height[1])
    ELSE IF image # None
    THEN Latent(batch_size, image[1].shape[3], image[1].shape[2])
    ELSE Raise("ValueError", <<>>)

\* faulty variant: a missing width or height falls back to the declared default
CreateLatentDefaults(batch_size, image, width, height) ==
    IF image # None
    THEN Latent(batch_size, image[1].shape[3], image[1].shape[2])
    ELSE Latent(batch_size, IF width = None THEN 1024 ELSE width[1],
                IF height = None THEN 1024 ELSE height[1])

\* image, width and height are None or Some(value); image.shape is
\* <<batch, height, width, channels>>
create_latent(batch_size, image, width, height) ==
    IF image # None
    THEN Latent(batch_size, image[1].shape[3], image[1].shape[2])
    ELSE IF width = None \/ height = None
    THEN Raise("ValueError", <<>>)
    ELSE Latent(batch_size, width[1], height[1])

----------------------------------------------------------------------------
(* SaveMeshAnywhere.  A str is a sequence of one-character strings.        *)

UpperLetters ==
    <<"A", "B", "C", "D", "E", "F", "G", "H", "I", "J", "K", "L", "M",
      "N", "O", "P", "Q", "R", "S", "T", "U", "V", "W", "X", "Y", "Z">>
LowerLetters ==
    <<"a", "b", "c", "d", "e", "f", "g", "h", "i", "j", "k", "l", "m",
      "n", "o", "p", "q", "r", "s", "t", "u", "v", "w", "x", "y", "z">>

LowerChar(c) ==
    IF \E i \in 1..Len(UpperLetters) : UpperLetters[i] = c
    THEN LowerLetters[CHOOSE i \in 1..Len(UpperLetters) : UpperLetters[i] = c]
    ELSE c

\* str.lower()
Lower(str) == [i \in 1..Len(str) |-> LowerChar(str[i])]

\* str.endswith(suffix)
EndsWith(str, suffix) ==
    /\ Len(str) >= Len(suffix)
    /\ SubSeq(str, Len(str) - Len(suffix) + 1, Len(str)) = suffix

\* str.rfind(c) + 1: the last position of c, 0 when there is none
RFind(str, c) ==
    IF \E i \in 1..Len(str) : str[i] = c
    THEN CHOOSE i \in 1..Len(str) : str[i] = c /\ \A j \in (i + 1)..Len(str) : str[j] # c
    ELSE 0

\* str.rstrip(c)
RECURSIVE RStrip(_, _)
RStrip(str, c) ==
    IF str # <<>> /\ str[Len(str)] = c THEN RStrip(SubSeq(str, 1, Len(str) - 1), c) ELSE str

\* os.path.dirname (posixpath)
dirname(path) ==
    LET head == SubSeq(path, 1, RFind(path, "/"))
    IN  IF head # <<>> /\ (\E i \in 1..Len(head) : head[i] # "/")
        THEN RStrip(head, "/")
        ELSE head

\* os.path.splitext (posixpath): <<root, ext>>
splitext(path) ==
    LET sepIndex == RFind(path, "/")
        dotIndex == RFind(path, ".")
    IN  IF dotIndex > sepIndex
           /\ \E i \in (sepIndex + 1)..(dotIndex - 1) : path[i] # "."
        THEN <<SubSeq(path, 1, dotIndex - 1), SubSeq(path, dotIndex, Len(path))>>
        ELSE <<path, <<>>>>

\* the directories os.makedirs(dir, exist_ok=True) leaves in place: dir and
\* every ancestor of it
makedirs(dir) ==
    {dir} \cup {RStrip(SubSeq(dir, 1, i - 1), "/") : i \in {j \in 2..Len(dir) : dir[j] = "/"}}

\* f".{file_format}"
Extension(file_format) == <<".">> \o file_format

\* faulty variant: the extension compared without lower()
CorrectExtensionCaseSensitive(save_path, file_format) ==
    IF ~EndsWith(save_path, Extension(file_format))
    THEN splitext(save_path)[1] \o Extension(file_format)
    ELSE save_path

\* "Ensure the file has the correct extension"
CorrectExtension(save_path, file_format) ==
    IF ~EndsWith(Lower(save_path), Extension(file_format))
    THEN splitext(save_path)[1] \o Extension(file_format)
    ELSE save_path

\* save_mesh against the directories on disk: the outcome and the
\* directories afterwards
save_mesh(dirs, save_path, file_format) ==
    LET save_dir == dirname(save_path)
        make     == save_dir # <<>> /\ save_dir \notin dirs
        path     == CorrectExtension(save_path, file_format)
        export   == [op |-> "export", path |-> path, file_type |-> file_format]
    IN  [outcome |-> Return(<<path>>,
                            IF make THEN <<[op |-> "makedirs", path |-> save_dir], export>>
                                    ELSE <<export>>),
         dirs    |-> IF make THEN dirs \cup makedirs(save_dir) ELSE dirs]

----------------------------------------------------------------------------
(* Inputs                                                                  *)

MaxNum == 5
MaxDen == 5
MaxNeg == 1
MaxScale == 6
MaxBatch == 2
MaxDim == 3
MaxDepth == 2
MaxStem == 1

\* target ratios: the table's own ratios, small quotients (zero and
\* negative ones included) and the large floats 2^(50 + j) + n
TableRatios == {ASPECT_RATIOS[i][3] : i \in 1..Len(ASPECT_RATIOS)}
Quotients == {FDiv(n, d) : n \in (-MaxNeg)..MaxNum, d \in 1..MaxDen}
One == FDiv(1, 1)
HugeTargets ==
    {FSub(Ldexp(One, Precision - 3 + j), FDiv(-n, 1)) : j \in 0..MaxScale, n \in 0..MaxNum}
Targets == TableRatios \cup Quotients \cup HugeTargets

Optional(S) == {None} \cup {Some(x) : x \in S}

\* the smallest width or height the node declares
DimUnit == 64
ImageDims == {DimUnit * n : n \in 1..MaxDim}
Images == {[shape |-> <<1, h, w, 3>>] : h \in ImageDims, w \in ImageDims}
ExplicitDims == {DimUnit * n : n \in (-MaxNeg)..MaxDim}

FILE_FORMATS ==
    { <<"g", "l", "b">>, <<"o", "b", "j">>, <<"p", "l", "y">>,
      <<"s", "t", "l">>, <<"3", "m", "f">>, <<"d", "a", "e">> }

UpperChar(c) ==
    IF \E i \in 1..Len(LowerLetters) : LowerLetters[i] = c
    THEN UpperLetters[CHOOSE i \in 1..Len(LowerLetters) : LowerLetters[i] = c]
    ELSE c
Upper(str) == [i \in 1..Len(str) |-> UpperChar(str[i])]

RECURSIVE Repeat(_, _)
Repeat(str, n) == IF n = 0 THEN <<>> ELSE str \o Repeat(str, n - 1)

\* directory prefixes "", "out.d/", "out.d/out.d/", ...
DirName == <<"o", "u", "t", ".", "d">>
DirPrefix(n) == Repeat(DirName \o <<"/">>, n)
\* file names: a stem, an optional inner extension, an optional last extension
Stems == {Repeat(<<"m">>, n) : n \in 0..MaxStem}
Inner == {<<>>, <<".", "t", "a", "r">>}
Last == {<<>>, <<".">>} \cup {Extension(f) : f \in FILE_FORMATS}
             \cup {Extension(Upper(f)) : f \in FILE_FORMATS}
SavePaths ==
    {DirPrefix(n) \o stem \o inner \o last :
        n \in 0..MaxDepth, stem \in Stems, inner \in Inner, last \in Last}

\* the directories on disk: none, or a chain of nested ones
DirsOnDisk(n) == {RStrip(DirPrefix(i), "/") : i \in 1..n}

----------------------------------------------------------------------------
(* pc is "called" while the call is pending and "returned" afterwards;     *)
(* result is what the call returned or raised, trace the statements it ran,*)
(* dirs the directories on disk, which only save_mesh reads or changes.    *)

VARIABLES pc, call, result, trace, dirs

vars == <<pc, call, result, trace, dirs>>

FindCalls ==
    {[op |-> "find_closest_aspect_ratio", target_ratio |-> t] : t \in Targets}
LatentCalls ==
    {[op |-> "create_latent", batch_size |-> b, image |-> i, width |-> w, height |-> h] :
        b \in 1..MaxBatch, i \in Optional(Images),
        w \in Optional(ExplicitDims), h \in Optional(ExplicitDims)}
MeshCalls ==
    {[op |-> "save_mesh", save_path |-> p, file_format |-> f] :
        p \in SavePaths, f \in FILE_FORMATS}

Init ==
    /\ pc = "called"
    /\ call \in FindCalls \cup LatentCalls \cup MeshCalls
    /\ result = [status |-> "pending", value |-> None]
    /\ trace = <<>>
    /\ dirs \in {DirsOnDisk(n) : n \in 0..(IF call.op = "save_mesh" THEN MaxDepth ELSE 0)}

Finish(outcome) ==
    /\ pc' = "returned"
    /\ result' = [status |-> outcome.status, value |-> outcome.value]
    /\ trace' = outcome.trace
    /\ UNCHANGED call

FindClosest ==
    /\ pc = "called"
    /\ call.op = "find_closest_aspect_ratio"
    /\ Finish(Return(find_closest_aspect_ratio(call.target_ratio), <<>>))
    /\ UNCHANGED dirs

CreateLatent ==
    /\ pc = "called"
    /\ call.op = "create_latent"
    /\ Finish(create_latent(call.batch_size, call.image, call.width, call.height))
    /\ UNCHANGED dirs

SaveMesh ==
    /\ pc = "called"
    /\ call.op = "save_mesh"
    /\ LET done == save_mesh(dirs, call.save_path, call.file_format)
       IN  /\ Finish(done.outcome)
           /\ dirs' = done.dirs

Next == FindClosest \/ CreateLatent \/ SaveMesh

Spec == Init /\ [][Next]_vars

----------------------------------------------------------------------------
(* Properties                                                              *)

Returned(op) == pc = "returned" /\ call.op = op

NumEntries == Len(TableLiterals)
Entry(i) == ASPECT_RATIOS[i]
InTable(value) == \E i \in 1..NumEntries : Entry(i) = value

\* |a - b| without rounding, as m * 2^e
ExactAbsDiff(a, b) ==
    IF b.m = <<>> THEN [m |-> a.m, e |-> a.e]
    ELSE IF a.m = <<>> THEN [m |-> b.m, e |-> b.e]
    ELSE LET e0 == Min(a.e, b.e)
             A  == BShl(a.m, a.e - e0)
             B  == BShl(b.m, b.e - e0)
         IN  [m |-> IF a.s # b.s THEN BAdd(A, B)
                    ELSE IF BCmp(A, B) = 1 THEN BSub(A, B) ELSE BSub(B, A),
              e |-> e0]

ExactLess(x, y) ==
    LET e0 == Min(x.e, y.e)
    IN  BCmp(BShl(x.m, x.e - e0), BShl(y.m, y.e - e0)) = -1

\* 2^50: from here on a float and the float 0.12 away from it can have the
\* same rounded distance to a third
Limit == Ldexp(One, Precision - 3)

Diffs(t) == [i \in 1..NumEntries |-> Diff(Entry(i)[3], t)]

\* the entries at the least distance from t
Nearest(t) ==
    LET d == Diffs(t)
    IN  {i \in 1..NumEntries : \A j \in 1..NumEntries : ~FLess(d[j], d[i])}

\* C2: when several entries are at the same, least, distance from the target,
\* find_closest_aspect_ratio returns the one earliest in the table, never a
\* later one.
C2_TieGoesToEarlier ==
    Returned("find_closest_aspect_ratio") =>
        LET tied == Nearest(call.target_ratio)
        IN  Cardinality(tied) >= 2 =>
                /\ result.value # None
                /\ \E i \in tied : /\ result.value = Entry(i)
                                   /\ \A j \in tied : i <= j

C2_Witness ==
    /\ Returned("find_closest_aspect_ratio")
    /\ FCmp(call.target_ratio, Entry(NumEntries)[3]) = -1
    /\ FCmp(call.target_ratio, Entry(1)[3]) = 1
    /\ Cardinality(Nearest(call.target_ratio)) = 2
    /\ \E i \in Nearest(call.target_ratio) :
           result.value = Entry(i) /\ (i + 1) \in Nearest(call.target_ratio)

DistinctRatios ==
    \A i, j \in 1..NumEntries : i # j => Entry(i)[3] # Entry(j)[3]

\* C3: no two entries of the table have the same ratio, and called with the
\* ratio of an entry find_closest_aspect_ratio returns exactly that entry.
C3_TableCoverage ==
    /\ DistinctRatios
    /\ Returned("find_closest_aspect_ratio") =>
           \A i \in 1..NumEntries :
               call.target_ratio = Entry(i)[3] => result.value = Entry(i)

C3_Witness ==
    /\ Returned("find_closest_aspect_ratio")
    /\ call.target_ratio = Entry(NumEntries)[3]
    /\ result.value = Entry(NumEntries)

\* C4: called with an image, create_latent returns what it returns for that
\* image and batch size with no width and height at all, whatever width and
\* height are passed; the input ratio is the image's height / width and the
\* match is the match of that ratio.
C4_ImageTakesPrecedence ==
    (Returned("create_latent") /\ call.image # None) =>
        LET h     == call.image[1].shape[2]
            w     == call.image[1].shape[3]
            alone == create_latent(call.batch_size, call.image, None, None)
        IN  /\ result = [status |-> alone.status, value |-> alone.value]
            /\ trace = alone.trace
            /\ result.status = "ok"
            /\ result.value[5].input = <<w, h, Format2(FDiv(h, w))>>
            /\ <<result.value[3], result.value[2], result.value[4]>>
                   = find_closest_aspect_ratio(FDiv(h, w))

C4_Witness ==
    /\ Returned("create_latent")
    /\ call.image # None /\ call.width # None /\ call.height # None
    /\ call.width[1] > 0 /\ call.height[1] > 0
    /\ call.width[1] * call.image[1].shape[2] # call.height[1] * call.image[1].shape[3]
    /\ result.status = "ok"
    /\ result.value[5].input[1] = call.image[1].shape[3]

\* C5: with no image and width or height (or both) absent, create_latent
\* raises ValueError before it computes a ratio or a match, and returns nothing.
C5_MissingDimensionRaises ==
    (/\ Returned("create_latent")
     /\ call.image = None
     /\ (call.width = None \/ call.height = None)) =>
        /\ result.status = "ValueError"
        /\ result.value = None
        /\ trace = <<>>

C5_Witness ==
    /\ Returned("create_latent")
    /\ call.image = None /\ call.width # None /\ call.height = None
    /\ result.status = "ValueError"

\* C6: with no image and an explicit width or height that is zero or
\* negative, create_latent raises the same ValueError and returns nothing.
C6_NonPositiveDimensionRaises ==
    (/\ Returned("create_latent")
     /\ call.image = None /\ call.width # None /\ call.height # None
     /\ (call.width[1] <= 0 \/ call.height[1] <= 0)) =>
        /\ result.status = "ValueError"
        /\ result.value = None

TableMultiplesOf8 ==
    \A i \in 1..NumEntries : Entry(i)[1] % 8 = 0 /\ Entry(i)[2] % 8 = 0

\* C7: every height and width of the table is a multiple of 8, and every
\* create_latent call that returns has a latent of shape
\* [batch_size, 4, matched_height / 8, matched_width / 8] with
\* latent_height * 8 = matched_height and latent_width * 8 = matched_width.
C7_LatentIsExactEighth ==
    /\ TableMultiplesOf8
    /\ (Returned("create_latent") /\ result.status = "ok") =>
           LET shape == result.value[1].samples.shape
           IN  /\ shape = <<call.batch_size, 4, result.value[3] \div 8, result.value[2] \div 8>>
               /\ shape[3] * 8 = result.value[3]
               /\ shape[4] * 8 = result.value[2]
               /\ result.value[1].samples.fill = 0

C7_Witness ==
    /\ Returned("create_latent")
    /\ result.status = "ok"
    /\ call.batch_size > 1
    /\ result.value[3] # result.value[2]

RECURSIVE ToNat(_)
ToNat(m) == IF m = <<>> THEN 0 ELSE m[1] + Base * ToNat(Tail(m))

\* height / width rounded to two decimals, as a float
Rounded2(height, width) == Literal(ToNat(Format2(FDiv(height, width)).cents))

TableRatiosAreQuotients ==
    \A i \in 1..NumEntries :
        /\ Entry(i)[3] = FDiv(Entry(i)[1], Entry(i)[2])
        /\ TableLiterals[i][3] * TableLiterals[i][2] = 100 * TableLiterals[i][1]

\* C8 as stated: for every entry of the table the stored ratio equals height
\* divided by width (ratio * width = height); so does the ratio of every entry
\* find_closest_aspect_ratio returns.
C8_RatioIsHeightOverWidth ==
    (Returned("find_closest_aspect_ratio") /\ result.value # None) =>
        /\ TableRatiosAreQuotients
        /\ result.value[3] = FDiv(result.value[1], result.value[2])

TableRatiosAreRounded ==
    \A i \in 1..NumEntries : Entry(i)[3] = Rounded2(Entry(i)[1], Entry(i)[2])

\* C8 amended: for every entry of the table the stored ratio is height
\* divided by width rounded to two decimals; so is the ratio of every entry
\* find_closest_aspect_ratio returns.
C8_RatioIsRoundedQuotient ==
    (Returned("find_closest_aspect_ratio") /\ result.value # None) =>
        /\ TableRatiosAreRounded
        /\ result.value[3] = Rounded2(result.value[1], result.value[2])

C8_Witness ==
    /\ Returned("find_closest_aspect_ratio")
    /\ InTable(result.value)
    /\ result.value[3] # FDiv(result.value[1], result.value[2])
    /\ result.value[3] = Rounded2(result.value[1], result.value[2])

\* the last "." of the final path component, when a character other than "."
\* precedes it in that component; 0 when the path has no extension
LastExtensionAt(path) ==
    LET dots == {k \in 1..Len(path) :
                    /\ path[k] = "."
                    /\ \A j \in k..Len(path) : path[j] # "/"
                    /\ \E j \in 1..(k - 1) :
                           path[j] # "." /\ \A n \in j..k : path[n] # "/"}
    IN  IF dots = {} THEN 0 ELSE CHOOSE k \in dots : \A n \in dots : n <= k

ExtensionReplaced(path, extension) ==
    IF LastExtensionAt(path) = 0 THEN path \o extension
    ELSE SubSeq(path, 1, LastExtensionAt(path) - 1) \o extension

\* C9: save_mesh returns exactly the path it passed to the one export call;
\* that path ends, case-insensitively, with "." + file_format; a save_path
\* already ending so is returned unchanged, otherwise its last extension (if
\* any) is replaced by "." + file_format; the destination directory is made
\* before the export call and exists afterwards.
C9_SavedPath ==
    Returned("save_mesh") =>
        LET extension == Extension(call.file_format)
            exports   == {i \in 1..Len(trace) : trace[i].op = "export"}
            made      == {i \in 1..Len(trace) : trace[i].op = "makedirs"}
        IN  /\ result.status = "ok"
            /\ Cardinality(exports) = 1
            /\ \A i \in exports :
                   /\ result.value = <<trace[i].path>>
                   /\ trace[i].file_type = call.file_format
                   /\ \A j \in made : j < i /\ trace[j].path = dirname(call.save_path)
            /\ EndsWith(Lower(result.value[1]), extension)
            /\ EndsWith(Lower(call.save_path), extension) => result.value[1] = call.save_path
            /\ ~EndsWith(Lower(call.save_path), extension) =>
                   result.value[1] = ExtensionReplaced(call.save_path, extension)
            /\ dirname(call.save_path) # <<>> => dirname(call.save_path) \in dirs

C9_Witness ==
    /\ Returned("save_mesh")
    /\ \E i \in 1..Len(trace) : trace[i].op = "makedirs"
    /\ LastExtensionAt(call.save_path) # 0
    /\ result.value[1] # call.save_path
    /\ result.value[1] # call.save_path \o Extension(call.file_format)

\* find_closest_aspect_ratio over the targets of the model
ClosestFor == [t \in Targets |-> find_closest_aspect_ratio(t)]

====
